---------------------------- MODULE Spec2Model ----------------------------
(***************************************************************************)
(* Model of the wave-rover gamepad reader and serial command sender.       *)
(*                                                                         *)
(*   src/inputDeviceReader.py  InputDeviceReader (construction, the        *)
(*                             read_events loop, value_to_percentage)      *)
(*   src/logger.py             Logger.__init__ (its keyword parameters)    *)
(*   src/rover.py              Rover (send_json and the command methods)   *)
(*   src/main.py               Main.start (the caller of read_events)      *)
(*                                                                         *)
(* Python values that may be an integer, None or not yet assigned are      *)
(* tagged tuples: Unbound, None, IntVal(n).                                *)
(***************************************************************************)
EXTENDS Integers, Sequences, FiniteSets, TLC

VARIABLES
    \* ---- InputDeviceReader.read_events ----
    reader_pc,       \* "loop": inside the for loop; "raised": an exception left read_events
    reader_error,    \* the exception that left read_events, "none" while it runs
    device_open,     \* self.device: the evdev handle is open
    key_states,      \* self.key_states: dict channel id -> stored value
    event,           \* the loop variable: the event read last
    key_number,      \* local of read_events (survives from one iteration to the next)
    key_value,       \* local of read_events
    percentage,      \* local of read_events
    events_read,     \* number of events the device has delivered so far
    callback_calls,  \* number of times callback(...) has been invoked
    callback_arg,    \* the mapping the last callback invocation received
    last,            \* history: channel id -> the last button/axis event on it
    kinds_seen,      \* history: the event types delivered so far
    \* ---- a single call of value_to_percentage ----
    norm_call,       \* its arguments [key_number, key_value]
    norm_result,     \* Pending, then what the call produced
    \* ---- InputDeviceReader.__init__ ----
    ctor_pc,         \* "idle" (not under study), "start", "done", "raised"
    ctor_error,      \* the exception that ended construction, "none" otherwise
    device_path,     \* the argument: None or IntVal(path)
    enumeration,     \* what evdev.list_devices() returns: a sequence of paths
    opened,          \* the paths evdev.InputDevice(...) was called on, in order
    reader_device,   \* self.device: Unbound, or IntVal(path)
    \* ---- Rover ----
    rover_pc,        \* "idle" (not under study), "ready", "exited" (rover_exit ran)
    ser_is_open,     \* self.ser.isOpen()
    ser_written,     \* the JSON objects written to the serial port, in order
    rover_call,      \* the method called last, "none" before the first call
    call_port_open,  \* whether the port was open when that call began
    call_writes,     \* how many commands that call wrote
    rover_error,     \* the exception that call raised, "none" when it returned
    response,        \* what send_json returned last (None: nothing parsed)
    read_back        \* <<r>>: the last read_all() of that call returned r; <<>>: it read nothing

reader_vars == <<reader_pc, reader_error, device_open, key_states, event,
                 key_number, key_value, percentage, events_read,
                 callback_calls, callback_arg, last, kinds_seen>>

norm_vars == <<norm_call, norm_result>>

ctor_vars == <<ctor_pc, ctor_error, device_path, enumeration, opened, reader_device>>

rover_vars == <<rover_pc, ser_is_open, ser_written, rover_call, call_port_open,
                call_writes, rover_error, response, read_back>>

vars == <<reader_vars, norm_vars, ctor_vars, rover_vars>>

-----------------------------------------------------------------------------
\* Python values

Unbound == <<"unbound">>
None == <<"None">>
IntVal(n) == <<"int", n>>
IsInt(x) == Len(x) = 2
Val(x) == x[2]

\* A dict as a function: d[k] = v, adding k when it is new.
DictSet(d, k, v) == [x \in DOMAIN d \cup {k} |-> IF x = k THEN v ELSE d[x]]

-----------------------------------------------------------------------------
\* Bounds of the model

MaxEvents == 3     \* events the device delivers in one run
RawSlack == 100    \* how far beyond the hardware range raw values are tried
MaxDevices == 3    \* input devices present (their paths are 0 .. MaxDevices-1)
MaxCommands == 2   \* a Rover method is called while fewer commands were written

-----------------------------------------------------------------------------
\* InputDeviceReader.value_to_percentage

joysticks == {0, 1, 3, 4}
triggers == {2, 5}
joystick_max == 32767
trigger_max == 1023

\* Python's int(x) of the float quotient a / b * 100 (b > 0): truncation toward
\* zero.  The float result differs from the exact quotient by far less than the
\* distance 1/b of a non-integral exact quotient from the nearest integer, and
\* is exact where the quotient is integral, so integer arithmetic gives the
\* same result.
IntOfFloorQuotient(a, b) == (a * 100) \div b
IntOfQuotient(a, b) ==
    IF a >= 0 THEN (a * 100) \div b ELSE -(((-a) * 100) \div b)

\* The result is IntVal(p), or "UnboundLocalError" when neither branch assigned
\* the local `percentage` before `return percentage` reads it.
value_to_percentage(kn, kv) ==
    IF kn \in joysticks THEN IntVal(IntOfQuotient(kv, joystick_max) * (-1))
    ELSE IF kn \in triggers THEN IntVal(IntOfQuotient(kv, trigger_max))
    ELSE <<"UnboundLocalError">>

-----------------------------------------------------------------------------
\* The events the device delivers

EV_KEY == "EV_KEY"
EV_ABS == "EV_ABS"
EV_SYN == "EV_SYN"

JoystickRaws == {-joystick_max, -16383, 0, 200, 16383}
TriggerRaws == {0, 5, 511, trigger_max}
\* Axis codes of the d-pad (ABS_HAT0X, ABS_HAT0Y): neither joystick nor trigger.
UnsupportedCodes == {16, 17}
HatRaws == {-1, 1}
KeyCodes == {2, 304}
KeyStates == {0, 1, 2}

Ev(t, c, v) == [type |-> t, code |-> c, value |-> v]

AbsEvents ==
    {Ev(EV_ABS, c, v) : c \in joysticks, v \in JoystickRaws}
    \cup {Ev(EV_ABS, c, v) : c \in triggers, v \in TriggerRaws}
    \cup {Ev(EV_ABS, c, v) : c \in UnsupportedCodes, v \in HatRaws}
KeyEvents == {Ev(EV_KEY, c, v) : c \in KeyCodes, v \in KeyStates}
OtherEvents == {Ev(EV_SYN, 0, 0)}
Events == AbsEvents \cup KeyEvents \cup OtherEvents
NoEvent == Ev("none", 0, 0)

-----------------------------------------------------------------------------
\* InputDeviceReader.read_events

SeededKeyStates == [k \in {2, 5, 0} |-> 0]

\* `percentage or key_value`: Python's `or` yields its right operand when the
\* left one is falsy, which None and the integer 0 both are.
PercentageOrKeyValue(p, kv) ==
    IF p = None \/ p = IntVal(0) THEN Val(kv) ELSE Val(p)

\* The locals after the two `if event.type == ...` blocks of one iteration.
KeyNumberAfter(e) ==
    IF e.type \in {EV_KEY, EV_ABS} THEN IntVal(e.code) ELSE key_number
KeyValueAfter(e) ==
    IF e.type \in {EV_KEY, EV_ABS} THEN IntVal(e.value) ELSE key_value
PercentageCarriedOver(e) ==
    IF e.type = EV_ABS /\ IsInt(value_to_percentage(e.code, e.value))
    THEN value_to_percentage(e.code, e.value)
    ELSE percentage
PercentageAfter(e) ==
    IF e.type = EV_KEY THEN None
    ELSE IF e.type = EV_ABS /\ IsInt(value_to_percentage(e.code, e.value))
    THEN value_to_percentage(e.code, e.value)
    ELSE percentage

\* The exception one iteration raises, "none" when it runs to its end:
\* value_to_percentage reading its unassigned local, or the debug f-string
\* reading key_number before any button or axis event assigned it.
IterationError(e) ==
    IF e.type = EV_ABS /\ ~IsInt(value_to_percentage(e.code, e.value))
    THEN "UnboundLocalError"
    ELSE IF Unbound \in {KeyNumberAfter(e), KeyValueAfter(e), PercentageAfter(e)}
    THEN "UnboundLocalError"
    ELSE "none"

\* callback(self.key_states): the consumer receives the dict itself.
CallbackUpdatedEntryOnly(ks, kn) == [x \in {kn} |-> ks[x]]
CallbackPayload(ks, kn) == ks

Pending == <<"pending">>

NormIdle ==
    /\ norm_call = [key_number |-> 0, key_value |-> 0]
    /\ norm_result = Pending

CtorIdle ==
    /\ ctor_pc = "idle"
    /\ ctor_error = "none"
    /\ device_path = None
    /\ enumeration = <<>>
    /\ opened = <<>>
    /\ reader_device = Unbound

\* The outcome of lines 17-26 of __init__ for InputDeviceReader() with the one
\* device 0 present: enumerated, opened for devices[0].path, opened again.
CtorDone ==
    /\ ctor_pc = "done"
    /\ ctor_error = "none"
    /\ device_path = None
    /\ enumeration = <<0>>
    /\ opened = <<0, 0, 0>>
    /\ reader_device = IntVal(0)

RoverIdle ==
    /\ rover_pc = "idle"
    /\ ser_is_open = FALSE
    /\ ser_written = <<>>
    /\ rover_call = "none"
    /\ call_port_open = FALSE
    /\ call_writes = 0
    /\ rover_error = "none"
    /\ response = None
    /\ read_back = <<>>

\* The reader as lines 17-26 of __init__ build it, about to run read_events
\* with a callback that records what it is given.
Init ==
    /\ NormIdle
    /\ CtorDone
    /\ RoverIdle
    /\ reader_pc = "loop"
    /\ reader_error = "none"
    /\ device_open = TRUE
    /\ key_states = SeededKeyStates
    /\ event = NoEvent
    /\ key_number = Unbound
    /\ key_value = Unbound
    /\ percentage = Unbound
    /\ events_read = 0
    /\ callback_calls = 0
    /\ callback_arg = <<>>
    /\ last = <<>>
    /\ kinds_seen = {}

\* One iteration of `for event in self.device.read_loop()`.
ReadEvent(e) ==
    /\ reader_pc = "loop"
    /\ events_read < MaxEvents
    /\ event' = e
    /\ events_read' = events_read + 1
    /\ kinds_seen' = kinds_seen \cup {e.type}
    /\ last' = IF e.type \in {EV_KEY, EV_ABS} THEN DictSet(last, e.code, e) ELSE last
    /\ key_number' = KeyNumberAfter(e)
    /\ key_value' = KeyValueAfter(e)
    /\ percentage' = PercentageAfter(e)
    /\ IF IterationError(e) = "none"
       THEN /\ key_states' = DictSet(key_states, Val(key_number'),
                                     PercentageOrKeyValue(percentage', key_value'))
            /\ callback_calls' = callback_calls + 1
            /\ callback_arg' = CallbackPayload(key_states', Val(key_number'))
            /\ UNCHANGED <<reader_pc, reader_error>>
       ELSE /\ reader_pc' = "raised"
            /\ reader_error' = IterationError(e)
            /\ UNCHANGED <<key_states, callback_calls, callback_arg>>
    /\ UNCHANGED <<device_open, norm_vars, ctor_vars, rover_vars>>

\* read_loop() raises (the device was unplugged or closed): nothing in
\* read_events or Main.start catches it or closes self.device.
ReadLoopRaises ==
    /\ reader_pc = "loop"
    /\ reader_pc' = "raised"
    /\ reader_error' = "OSError"
    /\ UNCHANGED <<device_open, key_states, event, key_number, key_value,
                   percentage, events_read, callback_calls, callback_arg,
                   last, kinds_seen, norm_vars, ctor_vars, rover_vars>>

Next ==
    \/ \E e \in Events : ReadEvent(e)
    \/ ReadLoopRaises

Spec == Init /\ [][Next]_vars

-----------------------------------------------------------------------------
\* A single call of value_to_percentage (SpecNorm)

NormChannels == joysticks \cup triggers \cup UnsupportedCodes
NormRaws(c) ==
    IF c \in joysticks THEN -(joystick_max + RawSlack)..(joystick_max + RawSlack)
    ELSE IF c \in triggers THEN -RawSlack..(trigger_max + RawSlack)
    ELSE HatRaws

ReaderIdle ==
    /\ reader_pc = "idle"
    /\ reader_error = "none"
    /\ device_open = FALSE
    /\ key_states = <<>>
    /\ event = NoEvent
    /\ key_number = Unbound
    /\ key_value = Unbound
    /\ percentage = Unbound
    /\ events_read = 0
    /\ callback_calls = 0
    /\ callback_arg = <<>>
    /\ last = <<>>
    /\ kinds_seen = {}

InitNorm ==
    /\ ReaderIdle
    /\ CtorIdle
    /\ RoverIdle
    /\ \E c \in NormChannels : \E v \in NormRaws(c) :
           norm_call = [key_number |-> c, key_value |-> v]
    /\ norm_result = Pending

CallValueToPercentage ==
    /\ norm_result = Pending
    /\ norm_result' = value_to_percentage(norm_call.key_number, norm_call.key_value)
    /\ UNCHANGED <<norm_call, reader_vars, ctor_vars, rover_vars>>

NextNorm == CallValueToPercentage

SpecNorm == InitNorm /\ [][NextNorm]_vars

-----------------------------------------------------------------------------
\* Logger.__init__ and its callers

\* The keyword parameters Logger.__init__ declares.
LoggerParams == {"module_name", "log_file", "log_level", "delete_old_logfile"}

\* The keyword arguments InputDeviceReader.__init__ passes to Logger(...).
ReaderLoggerKwargs ==
    {"module_name", "log_file", "log_level", "delete_old_logfile",
     "streamhandler", "filehandler"}

\* Logger(**kwargs): Python raises TypeError for a keyword the function does
\* not declare, before the body runs.
LoggerCall(kwargs) ==
    IF kwargs \subseteq LoggerParams /\ "module_name" \in kwargs
    THEN "none" ELSE "TypeError"

-----------------------------------------------------------------------------
\* InputDeviceReader.__init__ (SpecCtor)

Range(q) == {q[i] : i \in 1..Len(q)}
DevicePaths == 0..(MaxDevices - 1)
Enumerations ==
    {q \in UNION {[1..n -> DevicePaths] : n \in 0..MaxDevices} :
        \A i, j \in 1..Len(q) : i # j => q[i] # q[j]}

\* evdev.InputDevice(path) raises OSError for a path that is no accessible
\* device; evdev.list_devices() lists exactly the accessible ones.
OpenRaises(path) == path \notin Range(enumeration)

InitCtor ==
    /\ NormIdle
    /\ ReaderIdle
    /\ RoverIdle
    /\ ctor_pc = "start"
    /\ ctor_error = "none"
    /\ device_path \in {None} \cup {IntVal(p) : p \in 0..MaxDevices}
    /\ enumeration \in Enumerations
    /\ opened = <<>>
    /\ reader_device = Unbound

\* What __init__ does after the Logger: the selection of the device, the open
\* and the seeding, as [error, opened, device].
SelectAndOpen ==
    IF device_path = None
    THEN IF enumeration = <<>>
         THEN [error |-> "No input devices found", opened |-> <<>>, device |-> Unbound]
         ELSE [error |-> "none",
               opened |-> enumeration \o <<enumeration[1], enumeration[1]>>,
               device |-> IntVal(enumeration[1])]
    ELSE IF OpenRaises(Val(device_path))
         THEN [error |-> "OSError", opened |-> <<Val(device_path)>>, device |-> Unbound]
         ELSE [error |-> "none", opened |-> <<Val(device_path)>>, device |-> device_path]

ConstructReader ==
    /\ ctor_pc = "start"
    /\ IF LoggerCall(ReaderLoggerKwargs) # "none"
       THEN /\ ctor_pc' = "raised"
            /\ ctor_error' = LoggerCall(ReaderLoggerKwargs)
            /\ UNCHANGED <<opened, reader_device, device_open, key_states>>
       ELSE /\ ctor_pc' = IF SelectAndOpen.error = "none" THEN "done" ELSE "raised"
            /\ ctor_error' = SelectAndOpen.error
            /\ opened' = SelectAndOpen.opened
            /\ reader_device' = SelectAndOpen.device
            /\ device_open' = (SelectAndOpen.error = "none")
            /\ key_states' = IF SelectAndOpen.error = "none"
                             THEN SeededKeyStates ELSE key_states
    /\ UNCHANGED <<device_path, enumeration, norm_vars, rover_vars, reader_pc, reader_error,
                   event, key_number, key_value, percentage, events_read,
                   callback_calls, callback_arg, last, kinds_seen>>

NextCtor == ConstructReader

SpecCtor == InitCtor /\ [][NextCtor]_vars

-----------------------------------------------------------------------------
\* Rover (SpecRover)

Dict(r) == <<"dict", r>>

\* What the board has put on the line when read_all() runs: nothing, or the
\* text of one JSON object.
NoReply == <<>>
InaReply ==
    <<[shunt_mV |-> 1, load_V |-> 12, bus_V |-> 12, current_mA |-> 100,
       power_mW |-> 1200]>>
OtherReply == <<[T |-> 1]>>
BoardReplies == {NoReply, InaReply, OtherReply}

\* Rover.send_json(data) with the board's reply, as [written, error, response]:
\* with the port closed nothing happens and None is returned; otherwise the
\* command is written and json.loads parses the reply, raising JSONDecodeError
\* on the empty string.
send_json(data, reply) ==
    IF ~ser_is_open
    THEN [written |-> <<>>, error |-> "none", response |-> None, read |-> <<>>]
    ELSE IF reply = NoReply
    THEN [written |-> <<data>>, error |-> "JSONDecodeError", response |-> response,
          read |-> <<reply>>]
    ELSE [written |-> <<data>>, error |-> "none", response |-> Dict(reply[1]),
          read |-> <<reply>>]

\* The locals the methods build.  BUS_SERVO_CTRL, BUS_SERVO_SCAN,
\* BUS_SERVO_INFO, BUS_SERVO_ID_SET, BUS_SERVO_TORQUE_LOCK and
\* BUS_SERVO_TORQUE_LIMIT are written `NAME: {...}`, an annotation that
\* assigns nothing, so the local is unbound when send_json(NAME) reads it.
Chars(n) == [i \in 1..n |-> "x"]
OledTextLimit == 22
Truncated(text) == IF Len(text) > OledTextLimit THEN SubSeq(text, 1, OledTextLimit) ELSE text
OLED_SET(line, text) == Dict([T |-> 3, lineNum |-> line, Text |-> Truncated(text)])
OLED_CLEAR(line) == Dict([T |-> 3, lineNum |-> line, Text |-> <<>>])
OLED_DEFAULT == Dict([T |-> -3])
PID_SET(P, I) == Dict([T |-> 2, P |-> P, I |-> I])
SPEED_INPUT(speed_left, speed_right) == Dict([T |-> 1, L |-> speed_left, R |-> speed_right])
EMERGENCY_STOP == Dict([T |-> 0])
PWM_SERVO_CTRL(position, speed) == Dict([T |-> 40, pos |-> position, spd |-> speed])
PWM_SERVO_MID == Dict([T |-> -4])
BUS_SERVO_CTRL(servo_id, position, speed, acceleration) == Unbound
BUS_SERVO_MID(servo_id) == Dict([T |-> -5, id |-> servo_id])
BUS_SERVO_SCAN(number) == Unbound
BUS_SERVO_INFO(servo_id) == Unbound
BUS_SERVO_ID_SET(old_id, new_id) == Unbound
BUS_SERVO_TORQUE_LOCK(servo_id, status) == Unbound
BUS_SERVO_TORQUE_LIMIT(servo_id, limit) == Unbound
BUS_SERVO_MODE(servo_id, mode) == Dict([T |-> 57, id |-> servo_id, mode |-> mode])
WIFI_SCAN == Dict([T |-> 60])
WIFI_TRY_STA == Dict([T |-> 61])
WIFI_AP_DEFAULT == Dict([T |-> 62])
WIFI_INFO == Dict([T |-> 65])
WIFI_OFF == Dict([T |-> 66])
INA219_INFO == Dict([T |-> 70])
IMU_INFO == Dict([T |-> 71])
ENCODER_INFO == Dict([T |-> 73])
DEVICE_INFO == Dict([T |-> 74])
IO_IR_CUT(status) == Dict([T |-> 80, status |-> status])
SET_SPD_RATE(L, R) == Dict([T |-> 901, L |-> L, R |-> R])
GET_SPD_RATE == Dict([T |-> 902])
SPD_RATE_SAVE == Dict([T |-> 903])
GET_NVS_SPACE == Dict([T |-> 904])
NVS_CLEAR == Dict([T |-> 905])

\* The arguments the methods are called with.
OledLines == {0, 3}
OledTexts == {Chars(5), Chars(OledTextLimit + 1)}
Speeds == {-255, 0, 255}
ServoIds == {1, 2}
Statuses == {0, 1}

InitRover ==
    /\ NormIdle
    /\ CtorIdle
    /\ ReaderIdle
    /\ rover_pc = "ready"
    /\ ser_is_open = TRUE
    /\ ser_written = <<>>
    /\ rover_call = "none"
    /\ call_port_open = FALSE
    /\ call_writes = 0
    /\ rover_error = "none"
    /\ response = None
    /\ read_back = <<>>

RoverFrame == UNCHANGED <<rover_pc, ser_is_open, reader_vars, norm_vars, ctor_vars>>

\* A method whose body is `NAME = {...}; self.send_json(NAME)`.
Method(name, data, reply) ==
    /\ rover_pc = "ready"
    /\ Len(ser_written) < MaxCommands
    /\ rover_call' = name
    /\ call_port_open' = ser_is_open
    /\ IF data = Unbound
       THEN /\ rover_error' = "UnboundLocalError"
            /\ call_writes' = 0
            /\ read_back' = <<>>
            /\ UNCHANGED <<ser_written, response>>
       ELSE /\ rover_error' = send_json(Val(data), reply).error
            /\ call_writes' = Len(send_json(Val(data), reply).written)
            /\ ser_written' = ser_written \o send_json(Val(data), reply).written
            /\ response' = send_json(Val(data), reply).response
            /\ read_back' = send_json(Val(data), reply).read
    /\ RoverFrame

oled_set(reply) ==
    \E line \in OledLines, text \in OledTexts : Method("oled_set", OLED_SET(line, text), reply)

\* for line in range(4): send_json(...): the loop stops at the first send
\* that raises.
OledClearSends(replies) ==
    IF ~ser_is_open THEN 0
    ELSE IF \E i \in 1..4 : replies[i] = NoReply
    THEN CHOOSE i \in 1..4 : replies[i] = NoReply /\ \A j \in 1..(i - 1) : replies[j] # NoReply
    ELSE 4
oled_clear ==
    \E replies \in [1..4 -> {NoReply, OtherReply}] :
        /\ rover_pc = "ready"
        /\ Len(ser_written) < MaxCommands
        /\ rover_call' = "oled_clear"
        /\ call_port_open' = ser_is_open
        /\ call_writes' = OledClearSends(replies)
        /\ ser_written' = ser_written \o
               [i \in 1..OledClearSends(replies) |-> Val(OLED_CLEAR(i - 1))]
        /\ rover_error' = IF ser_is_open /\ \E i \in 1..4 : replies[i] = NoReply
                          THEN "JSONDecodeError" ELSE "none"
        /\ read_back' = IF ~ser_is_open THEN <<>>
                        ELSE <<replies[OledClearSends(replies)]>>
        /\ response' = IF ~ser_is_open THEN None
                       ELSE IF replies[1] = NoReply THEN response
                       ELSE Dict(OtherReply[1])
        /\ RoverFrame
oled_default(reply) == Method("oled_default", OLED_DEFAULT, reply)
pid_set(reply) == Method("pid_set", PID_SET(170, 90), reply)
speed_input(reply) ==
    \E l \in Speeds, r \in Speeds : Method("speed_input", SPEED_INPUT(l, r), reply)
emergency_stop(reply) == Method("emergency_stop", EMERGENCY_STOP, reply)
pwm_servo_control(reply) == Method("pwm_servo_control", PWM_SERVO_CTRL(90, 0), reply)
pwm_servo_mid(reply) == Method("pwm_servo_mid", PWM_SERVO_MID, reply)
bus_servo_ctrl(reply) ==
    \E id \in ServoIds : Method("bus_servo_ctrl", BUS_SERVO_CTRL(id, 2048, 0, 0), reply)
bus_servo_mid(reply) ==
    \E id \in ServoIds : Method("bus_servo_mid", BUS_SERVO_MID(id), reply)
bus_servo_scan(reply) == Method("bus_servo_scan", BUS_SERVO_SCAN(2), reply)
bus_servo_info(reply) ==
    \E id \in ServoIds : Method("bus_servo_info", BUS_SERVO_INFO(id), reply)
bus_servo_id_set(reply) == Method("bus_servo_id_set", BUS_SERVO_ID_SET(1, 2), reply)
bus_servo_torque_lock(reply) ==
    \E st \in Statuses : Method("bus_servo_torque_lock", BUS_SERVO_TORQUE_LOCK(1, st), reply)
bus_servo_torque_limit(reply) ==
    Method("bus_servo_torque_limit", BUS_SERVO_TORQUE_LIMIT(2, 500), reply)
bus_servo_mode(reply) == Method("bus_servo_mode", BUS_SERVO_MODE(1, 3), reply)
wifi_scan(reply) == Method("wifi_scan", WIFI_SCAN, reply)
wifi_try_sta(reply) == Method("wifi_try_sta", WIFI_TRY_STA, reply)
wifi_ap_default(reply) == Method("wifi_ap_default", WIFI_AP_DEFAULT, reply)
wifi_info(reply) == Method("wifi_info", WIFI_INFO, reply)
wifi_off(reply) == Method("wifi_off", WIFI_OFF, reply)

\* ina219_info goes on to read the reply: `for key in info` raises TypeError
\* when send_json returned None, info["shunt_mV"] raises KeyError when the
\* reply has no such field.
Ina219Error(reply) ==
    IF ~ser_is_open THEN "TypeError"
    ELSE IF reply = NoReply THEN "JSONDecodeError"
    ELSE IF "shunt_mV" \notin DOMAIN reply[1] THEN "KeyError"
    ELSE "none"
ina219_info(reply) ==
    /\ rover_pc = "ready"
    /\ Len(ser_written) < MaxCommands
    /\ rover_call' = "ina219_info"
    /\ call_port_open' = ser_is_open
    /\ rover_error' = Ina219Error(reply)
    /\ call_writes' = Len(send_json(Val(INA219_INFO), reply).written)
    /\ ser_written' = ser_written \o send_json(Val(INA219_INFO), reply).written
    /\ response' = send_json(Val(INA219_INFO), reply).response
    /\ read_back' = send_json(Val(INA219_INFO), reply).read
    /\ RoverFrame
imu_info(reply) == Method("imu_info", IMU_INFO, reply)
encoder_info(reply) == Method("encoder_info", ENCODER_INFO, reply)
device_info(reply) == Method("device_info", DEVICE_INFO, reply)
io_ir_cut(reply) == \E st \in Statuses : Method("io_ir_cut", IO_IR_CUT(st), reply)
set_spd_rate(reply) == Method("set_spd_rate", SET_SPD_RATE(1, 1), reply)
get_spd_rate(reply) == Method("get_spd_rate", GET_SPD_RATE, reply)
spd_rate_save(reply) == Method("spd_rate_save", SPD_RATE_SAVE, reply)
get_nvs_space(reply) == Method("get_nvs_space", GET_NVS_SPACE, reply)
nvs_clear(reply) == Method("nvs_clear", NVS_CLEAR, reply)

close_connection ==
    /\ rover_pc = "ready"
    /\ ser_is_open
    /\ ser_is_open' = FALSE
    /\ rover_call' = "close_connection"
    /\ call_port_open' = TRUE
    /\ call_writes' = 0
    /\ rover_error' = "none"
    /\ read_back' = <<>>
    /\ UNCHANGED <<rover_pc, ser_written, response, reader_vars, norm_vars, ctor_vars>>

\* rover_exit: close_connection() and exit(0) when the port is open.
rover_exit ==
    /\ rover_pc = "ready"
    /\ ser_is_open
    /\ ser_is_open' = FALSE
    /\ rover_pc' = "exited"
    /\ rover_call' = "rover_exit"
    /\ call_port_open' = TRUE
    /\ call_writes' = 0
    /\ rover_error' = "SystemExit"
    /\ read_back' = <<>>
    /\ UNCHANGED <<ser_written, response, reader_vars, norm_vars, ctor_vars>>

NextRover ==
    \/ \E reply \in BoardReplies : oled_set(reply)
    \/ oled_clear
    \/ \E reply \in BoardReplies : oled_default(reply)
    \/ \E reply \in BoardReplies : pid_set(reply)
    \/ \E reply \in BoardReplies : speed_input(reply)
    \/ \E reply \in BoardReplies : emergency_stop(reply)
    \/ \E reply \in BoardReplies : pwm_servo_control(reply)
    \/ \E reply \in BoardReplies : pwm_servo_mid(reply)
    \/ \E reply \in BoardReplies : bus_servo_ctrl(reply)
    \/ \E reply \in BoardReplies : bus_servo_mid(reply)
    \/ \E reply \in BoardReplies : bus_servo_scan(reply)
    \/ \E reply \in BoardReplies : bus_servo_info(reply)
    \/ \E reply \in BoardReplies : bus_servo_id_set(reply)
    \/ \E reply \in BoardReplies : bus_servo_torque_lock(reply)
    \/ \E reply \in BoardReplies : bus_servo_torque_limit(reply)
    \/ \E reply \in BoardReplies : bus_servo_mode(reply)
    \/ \E reply \in BoardReplies : wifi_scan(reply)
    \/ \E reply \in BoardReplies : wifi_try_sta(reply)
    \/ \E reply \in BoardReplies : wifi_ap_default(reply)
    \/ \E reply \in BoardReplies : wifi_info(reply)
    \/ \E reply \in BoardReplies : wifi_off(reply)
    \/ \E reply \in BoardReplies : ina219_info(reply)
    \/ \E reply \in BoardReplies : imu_info(reply)
    \/ \E reply \in BoardReplies : encoder_info(reply)
    \/ \E reply \in BoardReplies : device_info(reply)
    \/ \E reply \in BoardReplies : io_ir_cut(reply)
    \/ \E reply \in BoardReplies : set_spd_rate(reply)
    \/ \E reply \in BoardReplies : get_spd_rate(reply)
    \/ \E reply \in BoardReplies : spd_rate_save(reply)
    \/ \E reply \in BoardReplies : get_nvs_space(reply)
    \/ \E reply \in BoardReplies : nvs_clear(reply)
    \/ close_connection
    \/ rover_exit

SpecRover == InitRover /\ [][NextRover]_vars

-----------------------------------------------------------------------------
\* Properties of read_events (checked under Spec)

AxisChannels == joysticks \cup triggers
ReadStep == events_read' = events_read + 1

\* C1: while only axis events have been delivered, every joystick channel
\* holds a percentage in [-100, 100], every trigger channel a percentage in
\* [0, 100], and no channel holds the raw reading of its last axis event
\* (unless raw reading and percentage are the same number).
C1_StoredAxisValuesArePercentages ==
    kinds_seen \subseteq {EV_ABS} =>
        \A c \in DOMAIN key_states :
            /\ c \in joysticks => key_states[c] \in -100..100
            /\ c \in triggers => key_states[c] \in 0..100
            /\ c \in AxisChannels /\ c \in DOMAIN last =>
                \/ key_states[c] # last[c].value
                \/ last[c].value = Val(value_to_percentage(c, last[c].value))

\* C2: last-write-wins: a channel whose most recent event is an axis event
\* with raw value r holds value_to_percentage(c, r).
C2_LastWriteWins ==
    \A c \in DOMAIN last :
        last[c].type = EV_ABS /\ c \in AxisChannels =>
            /\ c \in DOMAIN key_states
            /\ key_states[c] = Val(value_to_percentage(c, last[c].value))

\* C4: every button event and every axis event of a joystick or trigger
\* channel, and every other event whose iteration runs to its end, invokes the
\* callback exactly once, after the update, with the whole mapping: the entry
\* of the event's channel and the unchanged entries of all other channels,
\* the seeded keys included; the callback is invoked at no other step; the
\* scenario {2:0,5:0,0:0} -(abs,2,1023)-> {2:100,5:0,0:0} -(abs,0,-16383)->
\* {2:100,5:0,0:49} runs as stated.
C4_Processed ==
    \/ event'.type = EV_KEY
    \/ event'.type = EV_ABS /\ event'.code \in AxisChannels
C4_Step ==
    /\ ReadStep /\ C4_Processed => reader_pc' = "loop"
    /\ ReadStep /\ reader_pc' = "loop" =>
        /\ callback_calls' = callback_calls + 1
        /\ callback_arg' = key_states'
        /\ DOMAIN key_states \cup {2, 5, 0} \subseteq DOMAIN callback_arg'
        /\ \A c \in DOMAIN key_states \ {Val(key_number')} :
               callback_arg'[c] = key_states[c]
    /\ ~(ReadStep /\ reader_pc' = "loop") => callback_calls' = callback_calls
    /\ ReadStep /\ key_states = SeededKeyStates /\ event' = Ev(EV_ABS, 2, 1023) =>
        callback_arg' = (2 :> 100 @@ 5 :> 0 @@ 0 :> 0)
    /\ ReadStep /\ key_states = (2 :> 100 @@ 5 :> 0 @@ 0 :> 0)
            /\ event' = Ev(EV_ABS, 0, -16383) =>
        callback_arg' = (2 :> 100 @@ 5 :> 0 @@ 0 :> 49)
C4_CallbackOncePerEventWithWholeMapping == [][C4_Step]_vars
C4_Witness ==
    /\ events_read = 2
    /\ callback_calls = 2
    /\ event = Ev(EV_ABS, 0, -16383)
    /\ callback_arg = (2 :> 100 @@ 5 :> 0 @@ 0 :> 49)

\* C5: an event that is neither a button nor an axis event leaves the mapping
\* unchanged, invokes no callback, raises nothing, and the loop goes on.
C5_OtherKindsAreIgnored ==
    [][ReadStep /\ event'.type \notin {EV_KEY, EV_ABS} =>
            /\ key_states' = key_states
            /\ callback_calls' = callback_calls
            /\ reader_pc' = "loop"
            /\ reader_error' = "none"]_vars

\* C6: read_events ends only when the source raises, and then the
\* termination reaches the caller and the device handle has been closed.
C6_TerminationReleasesDevice ==
    reader_pc = "raised" /\ reader_error = "OSError" =>
        /\ ~device_open
        /\ callback_calls <= events_read

\* C7: a button event stores exactly its raw press state under its channel
\* id, whatever came before it.
C7_ButtonPassthrough ==
    [][ReadStep /\ event'.type = EV_KEY =>
            /\ reader_pc' = "loop"
            /\ event'.code \in DOMAIN key_states'
            /\ key_states'[event'.code] = event'.value]_vars
C7_Witness ==
    /\ event = Ev(EV_KEY, 2, 0)
    /\ 2 \in DOMAIN last
    /\ EV_ABS \in kinds_seen
    /\ key_states[2] = 0
    /\ callback_arg[2] = 0
    /\ percentage = None

\* C10: an axis event of a channel that is neither joystick nor trigger is
\* skipped: no exception, the mapping unchanged, the loop goes on.
C10_UnsupportedChannelIsSkipped ==
    [][ReadStep /\ event'.type = EV_ABS /\ event'.code \notin AxisChannels =>
            /\ reader_pc' = "loop"
            /\ reader_error' = "none"
            /\ key_states' = key_states]_vars

-----------------------------------------------------------------------------
\* Properties of value_to_percentage (checked under SpecNorm)

Abs(x) == IF x < 0 THEN -x ELSE x

\* t is the quotient v / m * 100 truncated toward zero: it has the sign of v
\* (or is 0) and |t| <= |v| * 100 / m < |t| + 1.
IsTruncatedPercentage(t, v, m) ==
    /\ Abs(t) * m <= Abs(v) * 100
    /\ Abs(v) * 100 < (Abs(t) + 1) * m
    /\ t > 0 => v > 0
    /\ t < 0 => v < 0

\* C3: for a joystick channel the result is -trunc(v / 32767 * 100), for a
\* trigger channel trunc(v / 1023 * 100), truncating toward zero; 16383 gives
\* -49, -16383 gives 49, 511 gives 49 and 1023 gives 100.
C3_ValueToPercentageFormula ==
    LET c == norm_call.key_number
        v == norm_call.key_value
    IN  norm_result # Pending /\ c \in AxisChannels =>
            /\ IsInt(norm_result)
            /\ c \in joysticks =>
                /\ IsTruncatedPercentage(-Val(norm_result), v, joystick_max)
                /\ v = 16383 => Val(norm_result) = -49
                /\ v = -16383 => Val(norm_result) = 49
            /\ c \in triggers =>
                /\ IsTruncatedPercentage(Val(norm_result), v, trigger_max)
                /\ v = 511 => Val(norm_result) = 49
                /\ v = 1023 => Val(norm_result) = 100
C3_Witness ==
    /\ norm_call = [key_number |-> 0, key_value |-> -16383]
    /\ norm_result = IntVal(49)

-----------------------------------------------------------------------------
\* Properties of InputDeviceReader.__init__ (checked under SpecCtor)

\* C8: without a device identifier the first enumerated device becomes the
\* reader's device and an empty enumeration ends construction with "No input
\* devices found"; with an identifier that device is opened directly; whenever
\* no error occurs the device is open and the mapping is {2:0, 5:0, 0:0}.
C8_DeviceSelection ==
    ctor_pc \in {"done", "raised"} =>
        /\ device_path = None /\ enumeration = <<>> =>
            ctor_pc = "raised" /\ ctor_error = "No input devices found"
        /\ device_path = None /\ enumeration # <<>> =>
            ctor_pc = "done" /\ reader_device = IntVal(enumeration[1])
        /\ device_path # None /\ ~OpenRaises(Val(device_path)) =>
            ctor_pc = "done" /\ reader_device = device_path
        /\ ctor_pc = "done" =>
            /\ ctor_error = "none"
            /\ device_open
            /\ key_states = SeededKeyStates

-----------------------------------------------------------------------------
\* Properties of Rover (checked under SpecRover)

CommandMethods ==
    {"oled_set", "oled_clear", "oled_default", "pid_set", "speed_input",
     "emergency_stop", "pwm_servo_control", "pwm_servo_mid", "bus_servo_ctrl",
     "bus_servo_mid", "bus_servo_scan", "bus_servo_info", "bus_servo_id_set",
     "bus_servo_torque_lock", "bus_servo_torque_limit", "bus_servo_mode",
     "wifi_scan", "wifi_try_sta", "wifi_ap_default", "wifi_info", "wifi_off",
     "ina219_info", "imu_info", "encoder_info", "device_info", "io_ir_cut",
     "set_spd_rate", "get_spd_rate", "spd_rate_save", "get_nvs_space",
     "nvs_clear"}

\* C9: a command method called with the port open has written its command, a
\* JSON object with an integer field T, when it ends.
C9_CommandIsWritten ==
    rover_call \in CommandMethods /\ call_port_open =>
        /\ call_writes >= 1
        /\ Len(ser_written) >= call_writes
        /\ "T" \in DOMAIN ser_written[Len(ser_written)]
        /\ ser_written[Len(ser_written)].T \in Int

\* C11: with the port open the command is written before the reply is read,
\* and a command the board does not answer (read_all() returns nothing) ends
\* normally: no exception, the command written, the port still open and the
\* rover ready for the next command.
C11_NoReplyIsNotAnError ==
    rover_call \in CommandMethods /\ call_port_open /\ read_back = <<NoReply>> =>
        /\ rover_error = "none"
        /\ call_writes >= 1
        /\ ser_is_open
        /\ rover_pc = "ready"

=============================================================================
